---- MODULE Spec2Model ----
(***************************************************************************)
(* Fine-tuning drivers of ModelCenter (src/src/finetune_cpm1.py and        *)
(* src/src/finetune_gpt2.py): input packing, gradient-norm clipping with a *)
(* cross-worker all-reduce, the evaluation all-gather and its metrics, and *)
(* the CPM1 training run.  Each part is a specification of its own over    *)
(* the variables of this module; the variables of the other parts stay at  *)
(* their idle values.                                                      *)
(***************************************************************************)
EXTENDS Integers, Sequences, FiniteSets, TLC

VARIABLES
    mi_args,    \* make_input: the arguments of the call
    mi_pc,      \* make_input: "call" before the call, "done" after it
    mi_out      \* make_input: what the call produced (raised = "" when it returned)

packVars == <<mi_args, mi_pc, mi_out>>

VARIABLES
    world_size,     \* config['world_size']: the number of workers
    param_groups,   \* per rank: optimizer.param_groups, a list of groups of parameters
    cg_args,        \* clip_grad_norm: max_norm, scale, norm_type, eps of the calls
    cg_pc,          \* per rank: where the worker is in clip_grad_norm
    cg_call,        \* per rank: 1 in the first call, 2 in the call that follows it
    cg_entry,       \* per rank: param_groups as they were when the current call began
    cg_buf,         \* per rank: the buffer total_norm_cuda
    cg_norm,        \* per rank: total_norm of the current call
    cg_coef,        \* per rank: clip_coef of the current call
    cg_ret,         \* per rank: the value the current call returned
    cg_first        \* per rank: entry gradients, result gradients, clip_coef of call 1

clipVars == <<param_groups, cg_args, cg_pc, cg_call, cg_entry, cg_buf, cg_norm,
              cg_coef, cg_ret, cg_first>>

VARIABLES
    ev_task,        \* args.dataset_name
    ev_split,       \* the split being evaluated: "dev" or "test"
    ev_local,       \* per rank: the lists pd and gt after the loop, and the split's qids
    ev_pc,          \* per rank: where the worker is in the evaluation of the split
    ev_pd_global,   \* per rank: pd_global
    ev_gt_global,   \* per rank: gt_global
    ev_metric       \* per rank: the metrics computed for the split

evalVars == <<ev_task, ev_split, ev_local, ev_pc, ev_pd_global, ev_gt_global, ev_metric>>

VARIABLES
    rn_reader,      \* the rows of train.tsv, dev.tsv and test.tsv, header first
    rn_args,        \* args.max_length and args.batch_size
    rn_pc,          \* per rank: where the worker is in main() and finetune()
    rn_dataset,     \* per rank: self.data of the worker's three LCQMC_Datasets
    rn_epoch,       \* per rank: epoch
    rn_it,          \* per rank: batches of the current loop already handled
    rn_total,       \* per rank: total of the current evaluation loop
    rn_optim        \* per rank: completed calls of bmp.optim_step

runVars == <<rn_reader, rn_args, rn_pc, rn_dataset, rn_epoch, rn_it, rn_total, rn_optim>>

VARIABLES
    st_driver,      \* "cpm1" or "gpt2": the driver whose finetune() runs
    st_task,        \* args.dataset_name of the GPT-2 driver
    st_data,        \* the numbers of examples of the worker's datasets
    st_args,        \* args.batch_size, args.save, args.save_iters
    st_loader,      \* the numbers of examples behind the loaders of the epoch
    st_pc,          \* the statement the worker executes next
    st_epoch,       \* epoch
    st_it,          \* batches of the current loop already handled
    st_seen,        \* examples the current evaluation loop has seen
    st_steps,       \* the statements executed so far in the current training iteration
    st_grad,        \* .grad: backward passes since it was zeroed, and whether clipped
    st_applied,     \* <<st_grad>> as the latest optimizer step found it, <<>> before
    st_trained,     \* training iterations completed in the run
    st_evaluated    \* evaluations of a split completed in the run

stepVars == <<st_driver, st_task, st_data, st_args, st_loader, st_pc, st_epoch, st_it,
              st_seen, st_steps, st_grad, st_applied, st_trained, st_evaluated>>

vars == <<packVars, world_size, clipVars, evalVars, runVars, stepVars>>

\* what the actions of one part leave alone
notPack == <<world_size, clipVars, evalVars, runVars, stepVars>>
notClip == <<packVars, evalVars, runVars, stepVars>>
notEval == <<packVars, clipVars, runVars, stepVars>>
notRun == <<packVars, clipVars, evalVars, stepVars>>
notStep == <<packVars, clipVars, evalVars, runVars>>

(***************************************************************************)
(* Generic helpers.                                                        *)
(***************************************************************************)
RECURSIVE SeqsUpTo(_, _)
\* every sequence over S of length 0..n
SeqsUpTo(S, n) ==
    IF n = 0 THEN {<<>>}
    ELSE LET shorter == SeqsUpTo(S, n - 1)
         IN shorter \cup {Append(s, x) : s \in {t \in shorter : Len(t) = n - 1}, x \in S}

\* Python's [0 for i in range(n)]: empty when n <= 0
Zeros(n) == [i \in 1..n |-> 0]

(***************************************************************************)
(* Exact arithmetic for the norms: the numbers (a + b*sqrt(r))/d with      *)
(* integers a, b, d > 0 and a square-free radicand r (r = 1 when b = 0).   *)
(* The gradients start as integers; a 2-norm adds one radicand, the        *)
(* square-free part of the global sum of squares, and every later value of *)
(* a call sequence stays in that field.  NaR marks a value outside it.     *)
(***************************************************************************)
Abs(n) == IF n < 0 THEN -n ELSE n

RECURSIVE GCD(_, _)
GCD(m, n) == IF n = 0 THEN m ELSE GCD(n, m % n)

RECURSIVE ISqrtIn(_, _, _)
\* the k in lo..hi with k*k <= n < (k+1)*(k+1), given lo*lo <= n < (hi+1)*(hi+1)
ISqrtIn(n, lo, hi) ==
    IF lo = hi THEN lo
    ELSE LET mid == (lo + hi + 1) \div 2
         IN IF mid * mid <= n THEN ISqrtIn(n, mid, hi) ELSE ISqrtIn(n, lo, mid - 1)

RECURSIVE ISqrtBound(_, _)
\* a power of two whose square exceeds n
ISqrtBound(n, k) == IF k * k > n THEN k ELSE ISqrtBound(n, 2 * k)

ISqrt(n) == ISqrtIn(n, 0, ISqrtBound(n, 1))

\* the largest k with k*k dividing n, for n >= 1
SquarePart(n) ==
    LET ks == {k \in 1..ISqrt(n) : n % (k * k) = 0}
    IN CHOOSE k \in ks : \A j \in ks : j <= k

NaR == [a |-> 0, b |-> 0, d |-> 0, r |-> 0]

IsNum(x) == x.d > 0

\* (a + b*sqrt(r))/d in lowest terms
Num(a, b, d, r) ==
    LET a1 == IF r = 1 THEN a + b ELSE a
        b1 == IF r = 1 THEN 0 ELSE b
        g == GCD(GCD(Abs(a1), Abs(b1)), d)
    IN IF d <= 0 THEN NaR
       ELSE [a |-> a1 \div g, b |-> b1 \div g, d |-> d \div g,
             r |-> IF b1 = 0 THEN 1 ELSE r]

FromInt(n) == Num(n, 0, 1, 1)
Rat(n, d) == Num(n, 0, d, 1)
Zero == FromInt(0)
One == FromInt(1)

\* the radicand two operands share; 0 when they have different ones
Rad(x, y) ==
    IF x.b = 0 THEN y.r
    ELSE IF y.b = 0 \/ y.r = x.r THEN x.r
    ELSE 0

Add(x, y) ==
    IF ~IsNum(x) \/ ~IsNum(y) \/ Rad(x, y) = 0 THEN NaR
    ELSE LET g == GCD(x.d, y.d)
             xm == y.d \div g
             ym == x.d \div g
         IN Num(x.a * xm + y.a * ym, x.b * xm + y.b * ym, x.d * xm, Rad(x, y))

Neg(x) == IF ~IsNum(x) THEN NaR ELSE Num(-x.a, -x.b, x.d, x.r)

Sub(x, y) == Add(x, Neg(y))

Mul(x, y) ==
    IF ~IsNum(x) \/ ~IsNum(y) \/ Rad(x, y) = 0 THEN NaR
    ELSE LET gx == GCD(GCD(Abs(x.a), Abs(x.b)), y.d)     \* cancelled before multiplying
             gy == GCD(GCD(Abs(y.a), Abs(y.b)), x.d)
             xa == x.a \div gx
             xb == x.b \div gx
             ya == y.a \div gy
             yb == y.b \div gy
         IN Num(xa * ya + xb * yb * Rad(x, y), xa * yb + xb * ya,
                (x.d \div gy) * (y.d \div gx), Rad(x, y))

\* -1, 0 or 1: the sign of a + b*sqrt(r), with the common factor of a and b taken out
Sign(x) ==
    LET g == GCD(Abs(x.a), Abs(x.b))
        a1 == IF g = 0 THEN 0 ELSE x.a \div g
        b1 == IF g = 0 THEN 0 ELSE x.b \div g
    IN IF a1 >= 0 /\ b1 >= 0 THEN (IF a1 = 0 /\ b1 = 0 THEN 0 ELSE 1)
       ELSE IF a1 <= 0 /\ b1 <= 0 THEN -1
       ELSE IF a1 > 0 THEN (IF a1 * a1 > b1 * b1 * x.r THEN 1 ELSE -1)
       ELSE (IF b1 * b1 * x.r > a1 * a1 THEN 1 ELSE -1)

Less(x, y) == Sign(Sub(x, y)) < 0

AbsNum(x) == IF Sign(x) < 0 THEN Neg(x) ELSE x

MaxNum(x, y) == IF Less(x, y) THEN y ELSE x

\* 1/x for x # 0: with a = g*a1 and b = g*b1,
\* d*(a1 - b1*sqrt(r)) / (g*(a1*a1 - b1*b1*r))
Inv(x) ==
    LET g == GCD(Abs(x.a), Abs(x.b))
        a1 == IF g = 0 THEN 0 ELSE x.a \div g
        b1 == IF g = 0 THEN 0 ELSE x.b \div g
        n == a1 * a1 - b1 * b1 * x.r
    IN IF ~IsNum(x) \/ n = 0 THEN NaR
       ELSE IF n > 0 THEN Mul(Num(a1, -b1, n, x.r), Rat(x.d, g))
       ELSE Mul(Num(-a1, b1, -n, x.r), Rat(x.d, g))

Div(x, y) == Mul(x, Inv(y))

\* sqrt(n/d) for n >= 0, d > 0 in lowest terms: with n = kn*kn*mn and
\* d = kd*kd*md it is kn*sqrt(mn*md) / (kd*md)
SqrtRat(n, d) ==
    IF n = 0 THEN Zero
    ELSE LET g == GCD(n, d)
             kn == SquarePart(n \div g)
             mn == (n \div g) \div (kn * kn)
             kd == SquarePart(d \div g)
             md == (d \div g) \div (kd * kd)
         IN IF mn * md = 1 THEN Num(kn, 0, kd, 1) ELSE Num(0, kn, kd * md, mn * md)

\* sqrt(x) for x = (a + b*sqrt(r))/d > 0 with b # 0.  With s*s the largest square
\* dividing a and b, and a = s*s*a1, b = s*s*b1, it is s*(p + q*sqrt(r)), where p*p
\* is a root t of t*t - (a1/d)*t + r*b1*b1/(4*d*d) and q = b1/(2*d*p)
Denest(x) ==
    LET s == SquarePart(GCD(Abs(x.a), Abs(x.b)))
        a1 == x.a \div (s * s)
        b1 == x.b \div (s * s)
        e2 == a1 * a1 - x.r * b1 * b1
        e == IF e2 < 0 THEN 0 ELSE ISqrt(e2)
        cands == {t \in {a1 + e, a1 - e} : t > 0 /\ SqrtRat(t, 2 * x.d).b = 0}
    IN IF e2 < 0 \/ e * e # e2 \/ cands = {} THEN NaR
       ELSE LET p == SqrtRat(CHOOSE t \in cands : TRUE, 2 * x.d)
                q == Div(Rat(b1, 2 * x.d), p)
                root == Add(p, Mul(q, Num(0, 1, 1, x.r)))
            IN Mul(FromInt(s), AbsNum(root))

\* the non-negative square root
Sqrt(x) ==
    IF ~IsNum(x) \/ Sign(x) < 0 THEN NaR
    ELSE IF x.b = 0 THEN SqrtRat(x.a, x.d)
    ELSE Denest(x)

(***************************************************************************)
(* make_input  (finetune_cpm1.py:74-91)                                    *)
(***************************************************************************)
MaxTokens == 2      \* longest left / right token list tried
MaxSpans == 2       \* most span slots tried
MaxLength == 4      \* largest max_length tried

TokenIds == {0, 7}

\* the comparison of the assertion on line 78, with `<=` in place of `<`
LengthOkLoose(length, max_length) == length <= max_length

\* assert length < max_length
LengthOk(length, max_length) == length < max_length

\* line 86 with `>` in place of `>=`
ContextOffByOne(p, n_lef, spans) == (p < n_lef) \/ (p > n_lef + spans)

\* (context < len(lef_tokens)) | (context >= len(lef_tokens) + spans), at position p
Context(p, n_lef, spans) == (p < n_lef) \/ (p >= n_lef + spans)

\* The tensors are functions over the 0-based positions 0..max_length-1.
make_input(lef_tokens, rig_tokens, spans, max_length) ==
    LET input == lef_tokens \o Zeros(spans) \o rig_tokens
        length == Len(input)
    IN IF ~LengthOk(length, max_length)
       THEN [raised |-> "AssertionError", input_tokens |-> <<>>, input_length |-> 0,
             context |-> <<>>, input_span |-> <<>>]
       ELSE [raised |-> "",
             input_tokens |-> [p \in 0..(max_length - 1) |->
                                  IF p < length THEN input[p + 1] ELSE 0],
             input_length |-> length,
             context |-> [p \in 0..(max_length - 1) |->
                            Context(p, Len(lef_tokens), spans)],
             input_span |-> [p \in 0..(max_length - 1) |-> 0]]

NoOutput == [raised |-> "", input_tokens |-> <<>>, input_length |-> 0,
             context |-> <<>>, input_span |-> <<>>]

PackIdle == mi_args = <<>> /\ mi_pc = "idle" /\ mi_out = NoOutput

PackInit ==
    /\ mi_args \in [lef_tokens : SeqsUpTo(TokenIds, MaxTokens),
                    rig_tokens : SeqsUpTo(TokenIds, MaxTokens),
                    spans : 0..MaxSpans,
                    max_length : 1..MaxLength]
    /\ mi_pc = "call"
    /\ mi_out = NoOutput

\* one call of make_input on the drawn arguments
CallMakeInput ==
    /\ mi_pc = "call"
    /\ mi_pc' = "done"
    /\ mi_out' = make_input(mi_args.lef_tokens, mi_args.rig_tokens,
                            mi_args.spans, mi_args.max_length)
    /\ UNCHANGED <<mi_args, notPack>>

PackNext == CallMakeInput

(***************************************************************************)
(* clip_grad_norm  (finetune_cpm1.py:154-177)                              *)
(***************************************************************************)
MaxClipWorkers == 2     \* largest world size tried for clip_grad_norm

Ranks == 0..(world_size - 1)

\* torch's float / tensor: a division by zero gives inf (nan for 0/0), no error
PosInf == [a |-> 1, b |-> 0, d |-> 0, r |-> 1]

DivF(x, y) ==
    IF ~IsNum(x) \/ ~IsNum(y) THEN NaR
    ELSE IF Sign(y) = 0 THEN (IF Sign(x) > 0 THEN PosInf ELSE NaR)
    ELSE Div(x, y)

\* x < y for a finite y; false when x is inf or nan
LessF(x, y) == IsNum(x) /\ Less(x, y)

\* a parameter: p.grad is None when has_grad is false
Tensor(ints) == [has_grad |-> TRUE, grad |-> [i \in 1..Len(ints) |-> FromInt(ints[i])]]
NoGrad == [has_grad |-> FALSE, grad |-> <<>>]

\* the parameter groups a worker may hold
GroupChoices ==
    { << <<Tensor(<<3, 4>>)>> >>,
      << <<Tensor(<<0, 0>>)>> >>,
      << <<NoGrad, Tensor(<<1, -2>>)>> >>,
      << <<Tensor(<<1>>)>>, <<Tensor(<<2, 2>>), NoGrad>> >>,
      << <<NoGrad>> >> }

\* max_norm, scale (optimizer.scale / world_size at the call site), eps
HyperChoices ==
    { [max_norm |-> FromInt(1), scale |-> FromInt(1), eps |-> Zero],
      [max_norm |-> FromInt(1), scale |-> FromInt(1), eps |-> One],
      [max_norm |-> FromInt(6), scale |-> FromInt(1), eps |-> One],
      [max_norm |-> FromInt(1), scale |-> FromInt(2), eps |-> One],
      [max_norm |-> FromInt(3), scale |-> Rat(1, 2), eps |-> Zero] }

NormTypes == {"2", "inf"}

RECURSIVE Flatten(_)
Flatten(groups) == IF groups = <<>> THEN <<>> ELSE Head(groups) \o Flatten(Tail(groups))

\* parameters = [p for group in param_groups for p in group['params'] if p.grad is not None]
Parameters(groups) == SelectSeq(Flatten(groups), LAMBDA p : p.has_grad)

RECURSIVE SumSq(_)
SumSq(t) == IF t = <<>> THEN Zero ELSE Add(Mul(Head(t), Head(t)), SumSq(Tail(t)))

RECURSIVE MaxOf(_)
\* the maximum of a non-empty sequence of numbers
MaxOf(t) == IF Len(t) = 1 THEN Head(t) ELSE MaxNum(Head(t), MaxOf(Tail(t)))

\* p.grad.data.max() without the abs()
TensorMaxSigned(t) == MaxOf(t)

\* p.grad.data.abs().max()
TensorAbsMax(t) == MaxOf([i \in 1..Len(t) |-> AbsNum(t[i])])

\* p.grad.data.float().norm(2): the non-negative root of sq
TensorNorm2(t) == [sq |-> SumSq(t)]

\* param_norm ** norm_type for norm_type 2
PowNormType(param_norm) == param_norm.sq

RECURSIVE SumPowNorms(_)
\* the loop of lines 165-167 from total_norm_cuda = [0]
SumPowNorms(ps) ==
    IF ps = <<>> THEN Zero
    ELSE Add(SumPowNorms(SubSeq(ps, 1, Len(ps) - 1)),
             PowNormType(TensorNorm2(ps[Len(ps)].grad)))

\* the reduction that leaves out every rank but the caller's own
AllReduceLocalOnly(op, bufs, me) == bufs[me]

RECURSIVE ReduceUpTo(_, _, _)
ReduceUpTo(op, bufs, k) ==
    IF k = 0 THEN bufs[0]
    ELSE IF op = "max" THEN MaxNum(ReduceUpTo(op, bufs, k - 1), bufs[k])
    ELSE Add(ReduceUpTo(op, bufs, k - 1), bufs[k])

\* nccl.allReduce(buf, buf, op, comm): what rank `me` holds afterwards
AllReduce(op, bufs, me) == ReduceUpTo(op, bufs, world_size - 1)

\* clip_coef without the eps of the denominator
ClipCoefNoEps(max_norm, scale, total_norm, eps) == DivF(Mul(max_norm, scale), total_norm)

\* clip_coef = float(max_norm * scale) / (total_norm + eps)
ClipCoef(max_norm, scale, total_norm, eps) ==
    DivF(Mul(max_norm, scale), Add(total_norm, eps))

ScaleParam(p, coef) ==
    IF p.has_grad THEN [p EXCEPT !.grad = [i \in 1..Len(p.grad) |-> Mul(p.grad[i], coef)]]
    ELSE p

\* the loop of lines 175-176 stopping after the first tracked parameter
MulGradsFirstOnly(groups, coef) ==
    LET first == CHOOSE g \in 1..Len(groups) :
                    /\ \E i \in 1..Len(groups[g]) : groups[g][i].has_grad
                    /\ \A h \in 1..(g - 1) : \A i \in 1..Len(groups[h]) : ~groups[h][i].has_grad
        fi == CHOOSE i \in 1..Len(groups[first]) :
                    /\ groups[first][i].has_grad
                    /\ \A j \in 1..(i - 1) : ~groups[first][j].has_grad
    IN IF Parameters(groups) = <<>> THEN groups
       ELSE [groups EXCEPT ![first][fi] = ScaleParam(groups[first][fi], coef)]

\* for p in parameters: p.grad.data.mul_(clip_coef)
MulGrads(groups, coef) ==
    [g \in 1..Len(groups) |-> [i \in 1..Len(groups[g]) |-> ScaleParam(groups[g][i], coef)]]

NoFirst == [entry |-> <<>>, result |-> <<>>, coef |-> Zero]

ClipIdle ==
    /\ param_groups = <<>> /\ cg_args = <<>> /\ cg_pc = <<>> /\ cg_call = <<>>
    /\ cg_entry = <<>> /\ cg_buf = <<>> /\ cg_norm = <<>> /\ cg_coef = <<>>
    /\ cg_ret = <<>> /\ cg_first = <<>>

ClipInit ==
    /\ world_size \in 1..MaxClipWorkers
    /\ param_groups \in [Ranks -> GroupChoices]
    /\ \E h \in HyperChoices, t \in NormTypes :
          cg_args = [max_norm |-> h.max_norm, scale |-> h.scale, eps |-> h.eps,
                     norm_type |-> t]
    /\ cg_pc = [r \in Ranks |-> "start"]
    /\ cg_call = [r \in Ranks |-> 1]
    /\ cg_entry = param_groups
    /\ cg_buf = [r \in Ranks |-> Zero]
    /\ cg_norm = [r \in Ranks |-> Zero]
    /\ cg_coef = [r \in Ranks |-> Zero]
    /\ cg_ret = [r \in Ranks |-> Zero]
    /\ cg_first = [r \in Ranks |-> NoFirst]

\* lines 156-167: the local part of the norm, up to the all-reduce.  max() of no
\* parameters raises ValueError.
LocalNorm(r) ==
    /\ cg_pc[r] = "start"
    /\ LET parameters == Parameters(param_groups[r])
       IN IF cg_args.norm_type = "inf"
          THEN IF parameters = <<>>
               THEN /\ cg_pc' = [cg_pc EXCEPT ![r] = "ValueError"]
                    /\ UNCHANGED cg_buf
               ELSE /\ cg_buf' = [cg_buf EXCEPT ![r] =
                          MaxOf([i \in 1..Len(parameters) |->
                                    TensorAbsMax(parameters[i].grad)])]
                    /\ cg_pc' = [cg_pc EXCEPT ![r] = "allReduce"]
          ELSE /\ cg_buf' = [cg_buf EXCEPT ![r] = SumPowNorms(parameters)]
               /\ cg_pc' = [cg_pc EXCEPT ![r] = "allReduce"]
    /\ cg_entry' = [cg_entry EXCEPT ![r] = param_groups[r]]
    /\ UNCHANGED <<world_size, param_groups, cg_args, cg_call, cg_norm, cg_coef,
                   cg_ret, cg_first, notClip>>

\* lines 160 / 168: the collective completes once every worker has entered it
AllReduceDone ==
    /\ \A r \in Ranks : cg_pc[r] = "allReduce"
    /\ cg_buf' = [r \in Ranks |->
                    AllReduce(IF cg_args.norm_type = "inf" THEN "max" ELSE "sum", cg_buf, r)]
    /\ cg_pc' = [r \in Ranks |-> "clip"]
    /\ UNCHANGED <<world_size, param_groups, cg_args, cg_call, cg_entry, cg_norm,
                   cg_coef, cg_ret, cg_first, notClip>>

\* lines 161 / 169-177: total_norm, clip_coef, the in-place rescaling, the return
ClipAndReturn(r) ==
    /\ cg_pc[r] = "clip"
    /\ LET total_norm == IF cg_args.norm_type = "inf" THEN cg_buf[r] ELSE Sqrt(cg_buf[r])
           clip_coef == ClipCoef(cg_args.max_norm, cg_args.scale, total_norm, cg_args.eps)
       IN /\ cg_norm' = [cg_norm EXCEPT ![r] = total_norm]
          /\ cg_coef' = [cg_coef EXCEPT ![r] = clip_coef]
          /\ param_groups' = [param_groups EXCEPT ![r] =
                IF LessF(clip_coef, One) THEN MulGrads(param_groups[r], clip_coef)
                ELSE param_groups[r]]
          /\ cg_ret' = [cg_ret EXCEPT ![r] = Div(total_norm, cg_args.scale)]
    /\ cg_pc' = [cg_pc EXCEPT ![r] = "done"]
    /\ UNCHANGED <<world_size, cg_args, cg_call, cg_entry, cg_buf, cg_first, notClip>>

\* the same worker calls clip_grad_norm again with the same arguments and no
\* backward pass in between
CallAgain(r) ==
    /\ cg_pc[r] = "done"
    /\ cg_call[r] = 1
    /\ cg_call' = [cg_call EXCEPT ![r] = 2]
    /\ cg_first' = [cg_first EXCEPT ![r] =
          [entry |-> cg_entry[r], result |-> param_groups[r], coef |-> cg_coef[r]]]
    /\ cg_pc' = [cg_pc EXCEPT ![r] = "start"]
    /\ UNCHANGED <<world_size, param_groups, cg_args, cg_entry, cg_buf, cg_norm,
                   cg_coef, cg_ret, notClip>>

ClipNext ==
    \/ \E r \in Ranks : LocalNorm(r)
    \/ AllReduceDone
    \/ \E r \in Ranks : ClipAndReturn(r)
    \/ \E r \in Ranks : CallAgain(r)

(***************************************************************************)
(* Evaluation of one split in the GPT-2 driver  (finetune_gpt2.py:86-112,  *)
(* 174-225)                                                                *)
(***************************************************************************)
MaxEvalWorkers == 3     \* largest world size tried for the evaluation

\* what a worker may hold after the loop of lines 178-199: predictions, labels,
\* and the question ids of its examples
LocalChoices ==
    { [pd |-> <<0>>, gt |-> <<1>>, qids |-> <<11>>],
      [pd |-> <<0, 0>>, gt |-> <<0, 1>>, qids |-> <<10, 11>>],
      [pd |-> <<0, 0, 0>>, gt |-> <<0, 0, 0>>, qids |-> <<12, 12, 13>>],
      [pd |-> <<1, 0, 1>>, gt |-> <<1, 1, 1>>, qids |-> <<13, 14, 14>>] }

Tasks == {"CB", "MultiRC"}

\* what uninitialised positions of a torch.empty buffer may hold
JunkValues == {0, 1}

Min(a, b) == IF a < b THEN a ELSE b

\* a receive buffer with room for the caller's own entries only
BufferSizeOwnOnly(local_count) == local_count

\* len(pd) * config["world_size"]
BufferSize(local_count) == local_count * world_size

\* the gather that fills the slots in reverse rank order
AllGatherReversed(locals, me, size, junk) ==
    LET n == Len(locals[me])
    IN [p \in 1..size |->
          LET k == (world_size - 1) - ((p - 1) \div n)
              j == ((p - 1) % n) + 1
          IN IF k >= 0 /\ j <= Len(locals[k]) THEN locals[k][j] ELSE junk]

\* nccl.allGather(src, dst, comm) as rank `me` sees it: slot k of dst, as long as
\* the caller's own src, receives the entries of rank k.  When rank k sent fewer,
\* the rest of the slot keeps what the uninitialised buffer held.
AllGather(locals, me, size, junk) ==
    LET n == Len(locals[me])
    IN [p \in 1..size |->
          LET k == (p - 1) \div n
              j == ((p - 1) % n) + 1
          IN IF k < world_size /\ j <= Len(locals[k]) THEN locals[k][j] ELSE junk]

CountWhere(n, Test(_)) == Cardinality({i \in 1..n : Test(i)})

\* sklearn accuracy_score(gt, pd)
accuracy_score(gt, pd) ==
    Rat(CountWhere(Len(gt), LAMBDA i : gt[i] = pd[i]), Len(gt))

\* the F1 of one label: 2tp / (2tp + fp + fn), 0 when the label never occurs
F1OfLabel(gt, pd, c) ==
    LET tp == CountWhere(Len(gt), LAMBDA i : gt[i] = c /\ pd[i] = c)
        fp == CountWhere(Len(gt), LAMBDA i : gt[i] # c /\ pd[i] = c)
        fn == CountWhere(Len(gt), LAMBDA i : gt[i] = c /\ pd[i] # c)
    IN IF 2 * tp + fp + fn = 0 THEN Zero ELSE Rat(2 * tp, 2 * tp + fp + fn)

\* sklearn f1_score(gt, pd): the F1 of label 1
f1_score(gt, pd) == F1OfLabel(gt, pd, 1)

RECURSIVE SumOver(_, _)
\* the sum of f[x] over the x in S
SumOver(S, f) ==
    IF S = {} THEN Zero
    ELSE LET x == CHOOSE y \in S : TRUE IN Add(f[x], SumOver(S \ {x}, f))

\* sklearn f1_score(gt, pd, average="macro"): the mean F1 of the labels present
f1_score_macro(gt, pd) ==
    LET labels == {gt[i] : i \in 1..Len(gt)} \cup {pd[i] : i \in 1..Len(pd)}
    IN Div(SumOver(labels, [c \in labels |-> F1OfLabel(gt, pd, c)]),
           FromInt(Cardinality(labels)))

\* the sub-sequence of s at the positions, in order, whose qid is q
RECURSIVE Pick(_, _, _, _)
Pick(s, qids, q, n) ==
    IF n = 0 THEN <<>>
    ELSE IF qids[n] = q THEN Append(Pick(s, qids, q, n - 1), s[n])
    ELSE Pick(s, qids, q, n - 1)

\* metric(gts, pds, qids), lines 100-112; zip stops at the shortest of the three
metric(gts, pds, qids) ==
    LET n == Min(Len(gts), Min(Len(pds), Len(qids)))
        ss == {qids[i] : i \in 1..n}
        ems == [q \in ss |->
                   IF \A i \in 1..n : qids[i] = q => gts[i] = pds[i] THEN One ELSE Zero]
        f1s == [q \in ss |-> f1_score_macro(Pick(gts, qids, q, n), Pick(pds, qids, q, n))]
    IN [f1_a |-> f1_score(gts, pds),
        f1_m |-> Div(SumOver(ss, f1s), FromInt(Cardinality(ss))),
        em |-> Div(SumOver(ss, ems), FromInt(Cardinality(ss)))]

NoMetric == [accuracy |-> NaR, f1 |-> NaR, f1_a |-> NaR, em |-> NaR]

EvalIdle ==
    /\ ev_task = "" /\ ev_split = "" /\ ev_local = <<>> /\ ev_pc = <<>>
    /\ ev_pd_global = <<>> /\ ev_gt_global = <<>> /\ ev_metric = <<>>

EvalInit ==
    /\ world_size \in 1..MaxEvalWorkers
    /\ ev_task \in Tasks
    /\ ev_split \in {"dev", "test"}
    /\ ev_local \in [Ranks -> LocalChoices]
    /\ ev_pc = [r \in Ranks |-> "collect"]
    /\ ev_pd_global = [r \in Ranks |-> <<>>]
    /\ ev_gt_global = [r \in Ranks |-> <<>>]
    /\ ev_metric = [r \in Ranks |-> NoMetric]

LocalCounts == [r \in Ranks |-> Len(ev_local[r].pd)]

\* lines 200-204: the local tensors and the receive buffers of the worker's own
\* size; the worker enters the collective
EnterGather(r) ==
    /\ ev_pc[r] = "collect"
    /\ ev_pd_global' = [ev_pd_global EXCEPT ![r] =
                           [p \in 1..BufferSize(Len(ev_local[r].pd)) |-> 0]]
    /\ ev_gt_global' = [ev_gt_global EXCEPT ![r] =
                           [p \in 1..BufferSize(Len(ev_local[r].gt)) |-> 0]]
    /\ ev_pc' = [ev_pc EXCEPT ![r] = "allGather"]
    /\ UNCHANGED <<world_size, ev_task, ev_split, ev_local, ev_metric, notEval>>

\* lines 204-209: both gathers complete, between the two synchronize() barriers,
\* once every worker has entered; every worker's buffers are then filled
GatherDone ==
    /\ \A r \in Ranks : ev_pc[r] = "allGather"
    /\ \E junk_pd \in JunkValues, junk_gt \in JunkValues :
          /\ ev_pd_global' = [r \in Ranks |->
                AllGather([q \in Ranks |-> ev_local[q].pd], r, Len(ev_pd_global[r]), junk_pd)]
          /\ ev_gt_global' = [r \in Ranks |->
                AllGather([q \in Ranks |-> ev_local[q].gt], r, Len(ev_gt_global[r]), junk_gt)]
    /\ ev_pc' = [r \in Ranks |-> "metric"]
    /\ UNCHANGED <<world_size, ev_task, ev_split, ev_local, ev_metric, notEval>>

\* NCCL leaves a gather with different send counts undefined: the workers may
\* also stay blocked in the collective
GatherHangs ==
    /\ \A r \in Ranks : ev_pc[r] = "allGather"
    /\ \E q, r \in Ranks : LocalCounts[q] # LocalCounts[r]
    /\ ev_pc' = [r \in Ranks |-> "hung"]
    /\ UNCHANGED <<world_size, ev_task, ev_split, ev_local, ev_pd_global, ev_gt_global,
                   ev_metric, notEval>>

\* lines 213-225: the metrics of the task.  devset is the Subset random_split
\* returned, which has no attribute qids; testset is the worker's own dataset.
ComputeMetric(r) ==
    /\ ev_pc[r] = "metric"
    /\ LET gt == ev_gt_global[r]
           pd == ev_pd_global[r]
       IN IF ev_task \in {"MultiRC", "ReCoRD"} /\ ev_split = "dev"
          THEN /\ ev_pc' = [ev_pc EXCEPT ![r] = "AttributeError"]
               /\ UNCHANGED ev_metric
          ELSE /\ ev_pc' = [ev_pc EXCEPT ![r] = "done"]
               /\ ev_metric' = [ev_metric EXCEPT ![r] =
                     [accuracy |-> IF ev_task \in {"BoolQ", "CB", "COPA", "RTE", "WiC", "WSC"}
                                   THEN accuracy_score(gt, pd) ELSE NaR,
                      f1 |-> IF ev_task \in {"CB"} THEN f1_score_macro(gt, pd) ELSE NaR,
                      f1_a |-> IF ev_task \in {"MultiRC", "ReCoRD"}
                               THEN metric(gt, pd, ev_local[r].qids).f1_a ELSE NaR,
                      em |-> IF ev_task \in {"MultiRC", "ReCoRD"}
                             THEN metric(gt, pd, ev_local[r].qids).em ELSE NaR]]
    /\ UNCHANGED <<world_size, ev_task, ev_split, ev_local, ev_pd_global, ev_gt_global,
                   notEval>>

EvalNext ==
    \/ \E r \in Ranks : EnterGather(r)
    \/ GatherDone
    \/ GatherHangs
    \/ \E r \in Ranks : ComputeMetric(r)

(***************************************************************************)
(* The CPM1 run: main() after the model is set up, finetune_cpm1.py:93-145 *)
(* and 179-276.  Every worker loads its shard of the three LCQMC files and *)
(* runs finetune(); a collective completes once every worker has entered   *)
(* the same collective.                                                    *)
(***************************************************************************)
MaxRunWorkers == 2      \* largest world size tried for the run
MaxRows == 2            \* most data rows of an LCQMC file

\* for epoch in range(5)
NumEpochs == 5

Splits == {"train", "dev", "test"}

\* args.max_length and args.batch_size of the run
RunArgs == {[max_length |-> 5, batch_size |-> b] : b \in {1, 2}}

\* rows of a file as the tokenizer sees them: text is the encoding of the prompt
\* built from text_a and text_b.  With max_length 5 the packed ShortRow is
\* shorter than max_length, the packed EqualRow exactly as long, LongRow longer.
HeaderRow == [text |-> <<>>, label |-> 0]
ShortRow == [text |-> <<7>>, label |-> 1]
EqualRow == [text |-> <<7, 7>>, label |-> 0]
LongRow == [text |-> <<7, 7, 7>>, label |-> 0]
OddRows == {EqualRow, LongRow}

\* tokenizer.encode("。")
EncodedPeriod == <<8>>

\* list(csv.reader(fin)) of a file with a header and n rows
PlainFile(n) == <<HeaderRow>> \o [k \in 1..n |-> ShortRow]

PlainReaders ==
    { [train |-> PlainFile(a), dev |-> PlainFile(b), test |-> PlainFile(c)] :
        a \in 0..MaxRows, b \in 0..MaxRows, c \in 0..MaxRows }

\* the files of a run: rows that fit, and at most one row that does not
Readers ==
    PlainReaders \cup
    { [t[1] EXCEPT ![t[2]] = [t[1][t[2]] EXCEPT ![t[3] + 1] = t[4]]] :
        t \in { u \in PlainReaders \X Splits \X (1..MaxRows) \X OddRows :
                  u[3] < Len(u[1][u[2]]) } }

\* a max_id that keeps every row of the file
MaxIdNoTrunc(len_reader, ws) == len_reader - 1

\* max_id = (len(reader)-1) // world_size * world_size
MaxId(len_reader, ws) == ((len_reader - 1) \div ws) * ws

\* LCQMC_Dataset.__init__: the loop of lines 99-121 over the rows with index
\* below n; raised is the exception that ended it, data is self.data
RECURSIVE LoadRows(_, _, _, _, _)
LoadRows(reader, rank, ws, max_length, n) ==
    IF n = 0 THEN [raised |-> "", data |-> <<>>]
    ELSE LET before == LoadRows(reader, rank, ws, max_length, n - 1)
             i == n - 1
             row == reader[n]
             lef_tokens == <<1>> \o row.text
             packed == make_input(lef_tokens, EncodedPeriod, 1, max_length)
         IN IF before.raised # "" THEN before
            ELSE IF i = 0 \/ i > MaxId(Len(reader), ws) THEN before
            ELSE IF i % ws # rank THEN before
            ELSE IF packed.raised # "" THEN [raised |-> packed.raised, data |-> <<>>]
            ELSE [raised |-> "",
                  data |-> Append(before.data,
                                  [row |-> i,
                                   input_tokens |-> packed.input_tokens,
                                   input_length |-> packed.input_length,
                                   target |-> row.label,
                                   index |-> Len(lef_tokens) - 1])]

\* a dataset that keeps the rows of every rank
LCQMC_DatasetAllRows(reader, rank, ws, max_length) ==
    LoadRows(reader, 0, 1, max_length, Len(reader))

LCQMC_Dataset(reader, rank, ws, max_length) ==
    LoadRows(reader, rank, ws, max_length, Len(reader))

NoDataset == [train |-> <<>>, dev |-> <<>>, test |-> <<>>]

\* prepare_dataset: the three splits in the order train, dev, test; the first
\* exception ends it
prepare_dataset(readers, args, rank, ws) ==
    LET train == LCQMC_Dataset(readers.train, rank, ws, args.max_length)
        dev == LCQMC_Dataset(readers.dev, rank, ws, args.max_length)
        test == LCQMC_Dataset(readers.test, rank, ws, args.max_length)
    IN IF train.raised # "" THEN [raised |-> train.raised, dataset |-> NoDataset]
       ELSE IF dev.raised # "" THEN [raised |-> dev.raised, dataset |-> NoDataset]
       ELSE IF test.raised # "" THEN [raised |-> test.raised, dataset |-> NoDataset]
       ELSE [raised |-> "",
             dataset |-> [train |-> train.data, dev |-> dev.data, test |-> test.data]]

\* len(DataLoader(data, batch_size)): the last batch may be smaller
NumBatches(data, batch_size) == (Len(data) + batch_size - 1) \div batch_size

\* the number of examples in batch `it` of the loader
BatchLen(data, batch_size, it) == Min(batch_size, Len(data) - it * batch_size)

\* where a worker waits inside a collective, and the collective it is in
CollectiveOf ==
    [loss_sum_loss |-> "sum_loss", clip_allReduce |-> "allReduce",
     optim_step |-> "optim_step", dev_sum_loss |-> "sum_loss",
     test_sum_loss |-> "sum_loss"]
WaitSites == DOMAIN CollectiveOf
CollectiveOps == {"sum_loss", "allReduce", "optim_step"}

RunIdle ==
    /\ rn_reader = <<>> /\ rn_args = <<>> /\ rn_pc = <<>> /\ rn_dataset = <<>>
    /\ rn_epoch = <<>> /\ rn_it = <<>> /\ rn_total = <<>> /\ rn_optim = <<>>

RunInit ==
    /\ world_size \in 1..MaxRunWorkers
    /\ rn_reader \in Readers
    /\ rn_args \in RunArgs
    /\ rn_pc = [r \in Ranks |-> "prepare"]
    /\ rn_dataset = [r \in Ranks |-> NoDataset]
    /\ rn_epoch = [r \in Ranks |-> 0]
    /\ rn_it = [r \in Ranks |-> 0]
    /\ rn_total = [r \in Ranks |-> 0]
    /\ rn_optim = [r \in Ranks |-> 0]

\* main, lines 270-276: prepare_dataset for bmp.rank(), then finetune begins
\* with epoch 0
Prepare(r) ==
    /\ rn_pc[r] = "prepare"
    /\ LET prepared == prepare_dataset(rn_reader, rn_args, r, world_size)
       IN IF prepared.raised # ""
          THEN /\ rn_pc' = [rn_pc EXCEPT ![r] = prepared.raised]
               /\ UNCHANGED rn_dataset
          ELSE /\ rn_pc' = [rn_pc EXCEPT ![r] = "train"]
               /\ rn_dataset' = [rn_dataset EXCEPT ![r] = prepared.dataset]
    /\ UNCHANGED <<world_size, rn_reader, rn_args, rn_epoch, rn_it, rn_total, rn_optim,
                   notRun>>

\* lines 184-195: the next training batch: zero_grad, forward, loss, and the
\* worker enters bmp.sum_loss
TrainBatch(r) ==
    /\ rn_pc[r] = "train"
    /\ rn_it[r] < NumBatches(rn_dataset[r].train, rn_args.batch_size)
    /\ rn_pc' = [rn_pc EXCEPT ![r] = "loss_sum_loss"]
    /\ UNCHANGED <<world_size, rn_reader, rn_args, rn_dataset, rn_epoch, rn_it, rn_total,
                   rn_optim, notRun>>

\* lines 197-199 and 156-168: loss scaling, backward, the local sum of squares,
\* and the worker enters the all-reduce of clip_grad_norm
Backward(r) ==
    /\ rn_pc[r] = "backward"
    /\ rn_pc' = [rn_pc EXCEPT ![r] = "clip_allReduce"]
    /\ UNCHANGED <<world_size, rn_reader, rn_args, rn_dataset, rn_epoch, rn_it, rn_total,
                   rn_optim, notRun>>

\* lines 169-177 and 201: the gradients are rescaled, clip_grad_norm returns,
\* and the worker enters bmp.optim_step
RescaleGrads(r) ==
    /\ rn_pc[r] = "clip"
    /\ rn_pc' = [rn_pc EXCEPT ![r] = "optim_step"]
    /\ UNCHANGED <<world_size, rn_reader, rn_args, rn_dataset, rn_epoch, rn_it, rn_total,
                   rn_optim, notRun>>

\* total after the first n batches of an evaluation loop: total += logits.shape[0]
RECURSIVE TotalAfter(_, _, _)
TotalAfter(data, batch_size, n) ==
    IF n = 0 THEN 0
    ELSE TotalAfter(data, batch_size, n - 1) + BatchLen(data, batch_size, n - 1)

\* an evaluation loop with what follows it, lines 219-240 and 243-264: every
\* batch of the split, then acc / total, which raises when the loop saw no
\* example, and the worker enters bmp.sum_loss
EvalLoop(r, split) ==
    LET batches == NumBatches(rn_dataset[r][split], rn_args.batch_size)
        total == TotalAfter(rn_dataset[r][split], rn_args.batch_size, batches)
    IN /\ rn_it' = [rn_it EXCEPT ![r] = batches]
       /\ rn_total' = [rn_total EXCEPT ![r] = total]
       /\ rn_pc' = [rn_pc EXCEPT ![r] =
                       IF total = 0 THEN "ZeroDivisionError"
                       ELSE IF split = "dev" THEN "dev_sum_loss" ELSE "test_sum_loss"]
       /\ UNCHANGED <<world_size, rn_reader, rn_args, rn_dataset, rn_epoch, rn_optim,
                      notRun>>

\* lines 184 and 218-240: the training loader is exhausted; evaluation on dev
EvaluateDev(r) ==
    /\ rn_pc[r] = "train"
    /\ rn_it[r] = NumBatches(rn_dataset[r].train, rn_args.batch_size)
    /\ EvalLoop(r, "dev")

\* lines 241-264: the dev accuracy is printed; evaluation on test
EvaluateTest(r) ==
    /\ rn_pc[r] = "test"
    /\ EvalLoop(r, "test")

\* where a worker continues when the collective it waits in has completed
AfterCollective(r) ==
    CASE rn_pc[r] = "loss_sum_loss" -> "backward"
      [] rn_pc[r] = "clip_allReduce" -> "clip"
      [] rn_pc[r] = "optim_step" -> "train"
      [] rn_pc[r] = "dev_sum_loss" -> "test"
      [] rn_pc[r] = "test_sum_loss" ->
            IF rn_epoch[r] + 1 = NumEpochs THEN "done" ELSE "train"

\* a collective completes: every worker is inside a call of the same collective.
\* After bmp.optim_step the worker logs the batch (lines 203-216) and turns to
\* the next one; after the sum of the test accuracy the next epoch begins
\* (lines 265, 182-184).
Collective(op) ==
    /\ \A r \in Ranks : rn_pc[r] \in WaitSites /\ CollectiveOf[rn_pc[r]] = op
    /\ rn_pc' = [r \in Ranks |-> AfterCollective(r)]
    /\ rn_optim' = [r \in Ranks |->
                       IF rn_pc[r] = "optim_step" THEN rn_optim[r] + 1 ELSE rn_optim[r]]
    /\ rn_epoch' = [r \in Ranks |->
                       IF rn_pc[r] = "test_sum_loss" THEN rn_epoch[r] + 1 ELSE rn_epoch[r]]
    /\ rn_it' = [r \in Ranks |->
                    CASE rn_pc[r] = "optim_step" -> rn_it[r] + 1
                      [] rn_pc[r] \in {"dev_sum_loss", "test_sum_loss"} -> 0
                      [] OTHER -> rn_it[r]]
    /\ rn_total' = [r \in Ranks |->
                       IF rn_pc[r] \in {"dev_sum_loss", "test_sum_loss"} THEN 0
                       ELSE rn_total[r]]
    /\ UNCHANGED <<world_size, rn_reader, rn_args, rn_dataset, notRun>>

RunNext ==
    \/ \E r \in Ranks : Prepare(r)
    \/ \E r \in Ranks : TrainBatch(r)
    \/ \E r \in Ranks : Backward(r)
    \/ \E r \in Ranks : RescaleGrads(r)
    \/ \E r \in Ranks : EvaluateDev(r)
    \/ \E r \in Ranks : EvaluateTest(r)
    \/ \E op \in CollectiveOps : Collective(op)

\* prepare_dataset alone, on larger files whose rows all fit
MaxShardWorkers == 3    \* largest world size tried for the sharding
MaxShardRows == 5       \* most data rows of a file tried for the sharding

ShardReaders ==
    { [train |-> PlainFile(a), dev |-> PlainFile(b), test |-> PlainFile(c)] :
        a \in 0..MaxShardRows, b \in 0..MaxShardRows, c \in 0..MaxShardRows }

ShardInit ==
    /\ world_size \in 1..MaxShardWorkers
    /\ rn_reader \in ShardReaders
    /\ rn_args \in RunArgs
    /\ rn_pc = [r \in Ranks |-> "prepare"]
    /\ rn_dataset = [r \in Ranks |-> NoDataset]
    /\ rn_epoch = [r \in Ranks |-> 0]
    /\ rn_it = [r \in Ranks |-> 0]
    /\ rn_total = [r \in Ranks |-> 0]
    /\ rn_optim = [r \in Ranks |-> 0]

ShardNext == \E r \in Ranks : Prepare(r)

(***************************************************************************)
(* One worker's way through finetune() in either driver, statement by      *)
(* statement: finetune_cpm1.py:179-265 and finetune_gpt2.py:114-225.  The  *)
(* collectives return as soon as they are called (a single worker).        *)
(***************************************************************************)
MaxExamples == 3        \* most examples of a dataset the worker holds

\* for epoch in range(20)
NumEpochsGpt2 == 20

Drivers == {"cpm1", "gpt2"}

Epochs(driver) == IF driver = "cpm1" THEN NumEpochs ELSE NumEpochsGpt2

\* the examples of dataset["train"], dataset["dev"], dataset["test"] on the
\* worker.  The GPT-2 driver reads only the first two, and is run here with at
\* least one example in each, so that no evaluation split of it is empty.
StepData(driver) ==
    IF driver = "cpm1"
    THEN [train : 0..MaxExamples, dev : 0..MaxExamples, test : 0..MaxExamples]
    ELSE [train : 1..MaxExamples, dev : 1..MaxExamples, test : {0}]

\* args.batch_size, and args.save / args.save_iters (read by the CPM1 driver)
StepArgs(driver) ==
    IF driver = "cpm1"
    THEN [batch_size : {1, 2}, save : BOOLEAN, save_iters : {2}]
    ELSE [batch_size : {1, 2}, save : {FALSE}, save_iters : {2}]

\* the sizes of the three loaders of an epoch.  CPM1 uses the datasets as they
\* are; GPT-2 splits dataset["train"] 9 : 1 into trainset and devset
\* (split_length = int(len * 0.9)) and evaluates dataset["dev"] as testset.
LoaderSizes(driver, data) ==
    IF driver = "cpm1" THEN data
    ELSE LET split_length == (data.train * 9) \div 10
         IN [train |-> split_length, dev |-> data.train - split_length, test |-> data.dev]

\* len(DataLoader(...)) for n examples
LoaderLen(n, batch_size) == (n + batch_size - 1) \div batch_size

\* a loop body in which the optimizer steps before the backward pass
TrainBodyOptimFirst(driver) ==
    <<"zero_grad", "forward", "loss", "sum_loss", "loss_scale", "optim_step", "backward",
      "clip_grad_norm", "log">>

\* the statements of the body of the training loop, in program order:
\* finetune_cpm1.py:187-213 and finetune_gpt2.py:140-169
TrainBody(driver) ==
    <<"zero_grad", "forward", "loss", "sum_loss", "loss_scale", "backward",
      "clip_grad_norm", "optim_step", "log">>

NoGradYet == [backwards |-> 0, clipped |-> FALSE]

StepIdle ==
    /\ st_driver = "" /\ st_task = "" /\ st_data = <<>> /\ st_args = <<>>
    /\ st_loader = <<>> /\ st_pc = "idle" /\ st_epoch = 0 /\ st_it = 0 /\ st_seen = 0
    /\ st_steps = <<>> /\ st_grad = NoGradYet /\ st_applied = <<>>
    /\ st_trained = 0 /\ st_evaluated = 0

StepInit ==
    /\ st_driver \in Drivers
    /\ st_task \in (IF st_driver = "cpm1" THEN {"LCQMC"} ELSE Tasks)
    /\ st_data \in StepData(st_driver)
    /\ st_args \in StepArgs(st_driver)
    /\ st_loader = [train |-> 0, dev |-> 0, test |-> 0]
    /\ st_pc = "epoch" /\ st_epoch = 0 /\ st_it = 0 /\ st_seen = 0
    /\ st_steps = <<>> /\ st_grad = NoGradYet /\ st_applied = <<>>
    /\ st_trained = 0 /\ st_evaluated = 0

stepInputs == <<world_size, st_driver, st_task, st_data, st_args, notStep>>

\* the head of the epoch loop: the loaders of the epoch, model.train()
\* (finetune_cpm1.py:182-184, finetune_gpt2.py:119-133)
BeginEpoch ==
    /\ st_pc = "epoch"
    /\ st_epoch < Epochs(st_driver)
    /\ st_loader' = LoaderSizes(st_driver, st_data)
    /\ st_pc' = "batch"
    /\ st_it' = 0
    /\ UNCHANGED <<stepInputs, st_epoch, st_seen, st_steps, st_grad, st_applied, st_trained,
                   st_evaluated>>

\* the epoch loop is exhausted: finetune returns
EndRun ==
    /\ st_pc = "epoch"
    /\ st_epoch = Epochs(st_driver)
    /\ st_pc' = "done"
    /\ UNCHANGED <<stepInputs, st_loader, st_epoch, st_it, st_seen, st_steps, st_grad,
                   st_applied, st_trained, st_evaluated>>

\* the training loader yields the next batch
NextBatch ==
    /\ st_pc = "batch"
    /\ st_it < LoaderLen(st_loader.train, st_args.batch_size)
    /\ st_steps' = <<>>
    /\ st_pc' = TrainBody(st_driver)[1]
    /\ UNCHANGED <<stepInputs, st_loader, st_epoch, st_it, st_seen, st_grad, st_applied,
                   st_trained, st_evaluated>>

\* the statement that follows `step` in the body, "end" after the last one
StepAfter(driver, step) ==
    LET body == TrainBody(driver)
        k == CHOOSE j \in 1..Len(body) : body[j] = step
    IN IF k < Len(body) THEN body[k + 1] ELSE "end"

\* where control goes after `step`: the next statement of the body; after the
\* last one the checkpoint of finetune_cpm1.py:215-216 when it is due, else the
\* head of the training loop
PcAfter(step) ==
    IF StepAfter(st_driver, step) # "end" THEN StepAfter(st_driver, step)
    ELSE IF st_driver = "cpm1" /\ st_args.save /\ st_it % st_args.save_iters = 0
         THEN "save"
         ELSE "batch"

\* the statement `step` of the body is executed
Exec(step) ==
    /\ st_pc = step
    /\ st_steps' = Append(st_steps, step)
    /\ st_pc' = PcAfter(step)
    /\ st_it' = IF PcAfter(step) = "batch" THEN st_it + 1 ELSE st_it
    /\ st_trained' = IF PcAfter(step) = "batch" THEN st_trained + 1 ELSE st_trained
    /\ UNCHANGED <<stepInputs, st_loader, st_epoch, st_seen, st_evaluated>>

\* optimizer.zero_grad()
ZeroGrad ==
    /\ Exec("zero_grad")
    /\ st_grad' = [backwards |-> 0, clipped |-> FALSE]
    /\ UNCHANGED st_applied

\* logits = model(...)
ForwardPass == Exec("forward") /\ UNCHANGED <<st_grad, st_applied>>

\* loss = loss_func(...) (GPT-2: the sum of two losses)
ComputeLoss == Exec("loss") /\ UNCHANGED <<st_grad, st_applied>>

\* global_loss = bmp.sum_loss(loss).item()
SumLoss == Exec("sum_loss") /\ UNCHANGED <<st_grad, st_applied>>

\* loss = optimizer.loss_scale(loss)
LossScale == Exec("loss_scale") /\ UNCHANGED <<st_grad, st_applied>>

\* loss.backward(): the gradients of this pass are added to .grad
BackwardPass ==
    /\ Exec("backward")
    /\ st_grad' = [backwards |-> st_grad.backwards + 1, clipped |-> FALSE]
    /\ UNCHANGED st_applied

\* grad_norm = clip_grad_norm(...)
ClipGradNorm ==
    /\ Exec("clip_grad_norm")
    /\ st_grad' = [st_grad EXCEPT !.clipped = TRUE]
    /\ UNCHANGED st_applied

\* bmp.optim_step(optimizer, lr_scheduler): the optimizer and the learning-rate
\* schedule step on the gradients as they are
OptimStep ==
    /\ Exec("optim_step")
    /\ st_applied' = <<st_grad>>
    /\ UNCHANGED st_grad

\* bmp.print_rank("train | ...")
LogBatch == Exec("log") /\ UNCHANGED <<st_grad, st_applied>>

\* bmp.save(model, ...), finetune_cpm1.py:215-216
SaveCheckpoint ==
    /\ st_pc = "save"
    /\ st_pc' = "batch"
    /\ st_it' = st_it + 1
    /\ st_trained' = st_trained + 1
    /\ UNCHANGED <<stepInputs, st_loader, st_epoch, st_seen, st_steps, st_grad, st_applied,
                   st_evaluated>>

\* the training loader is exhausted: model.eval(), and the loop over dev begins
BeginEval ==
    /\ st_pc = "batch"
    /\ st_it = LoaderLen(st_loader.train, st_args.batch_size)
    /\ st_pc' = "eval_dev"
    /\ st_it' = 0
    /\ st_seen' = 0
    /\ UNCHANGED <<stepInputs, st_loader, st_epoch, st_steps, st_grad, st_applied,
                   st_trained, st_evaluated>>

\* one batch of an evaluation loop: forward pass without gradients, the
\* predictions are collected (finetune_cpm1.py:222-238, 246-262;
\* finetune_gpt2.py:178-199)
EvalStep(split) ==
    /\ st_pc = "eval_" \o split
    /\ st_it < LoaderLen(st_loader[split], st_args.batch_size)
    /\ st_seen' = st_seen + Min(st_args.batch_size,
                                st_loader[split] - st_it * st_args.batch_size)
    /\ st_it' = st_it + 1
    /\ UNCHANGED <<stepInputs, st_loader, st_pc, st_epoch, st_steps, st_grad, st_applied,
                   st_trained, st_evaluated>>

\* what ends the evaluation of a split, "" when nothing is raised: CPM1 divides
\* acc by total (lines 239, 263); GPT-2 reads devset.qids for MultiRC and ReCoRD
\* (line 221), which the Subset devset does not have
EvalRaises(split) ==
    IF st_driver = "cpm1" /\ st_seen = 0 THEN "ZeroDivisionError"
    ELSE IF st_driver = "gpt2" /\ st_task \in {"MultiRC", "ReCoRD"} /\ split = "dev"
         THEN "AttributeError"
         ELSE ""

\* the evaluation loop of a split is exhausted: its metrics are reduced and
\* printed; after dev comes test, after test the next epoch
FinishSplit(split) ==
    /\ st_pc = "eval_" \o split
    /\ st_it = LoaderLen(st_loader[split], st_args.batch_size)
    /\ IF EvalRaises(split) # ""
       THEN /\ st_pc' = EvalRaises(split)
            /\ UNCHANGED <<st_epoch, st_it, st_seen, st_evaluated>>
       ELSE /\ st_pc' = IF split = "dev" THEN "eval_test" ELSE "epoch"
            /\ st_epoch' = IF split = "dev" THEN st_epoch ELSE st_epoch + 1
            /\ st_it' = 0
            /\ st_seen' = 0
            /\ st_evaluated' = st_evaluated + 1
    /\ UNCHANGED <<stepInputs, st_loader, st_steps, st_grad, st_applied, st_trained>>

StepNext ==
    \/ BeginEpoch
    \/ EndRun
    \/ NextBatch
    \/ ZeroGrad
    \/ ForwardPass
    \/ ComputeLoss
    \/ SumLoss
    \/ LossScale
    \/ BackwardPass
    \/ ClipGradNorm
    \/ OptimStep
    \/ LogBatch
    \/ SaveCheckpoint
    \/ BeginEval
    \/ EvalStep("dev")
    \/ EvalStep("test")
    \/ FinishSplit("dev")
    \/ FinishSplit("test")

(***************************************************************************)
(* The specifications.                                                     *)
(***************************************************************************)
InitPack == PackInit /\ world_size = 1 /\ ClipIdle /\ EvalIdle /\ RunIdle /\ StepIdle

SpecPack == InitPack /\ [][PackNext]_vars

InitClip == ClipInit /\ PackIdle /\ EvalIdle /\ RunIdle /\ StepIdle

SpecClip == InitClip /\ [][ClipNext]_vars

InitEval == EvalInit /\ PackIdle /\ ClipIdle /\ RunIdle /\ StepIdle

SpecEval == InitEval /\ [][EvalNext]_vars

InitRun == RunInit /\ PackIdle /\ ClipIdle /\ EvalIdle /\ StepIdle

SpecRun == InitRun /\ [][RunNext]_vars

\* every worker is a process of its own that keeps running while it can take a
\* step
FairSpecRun == InitRun /\ [][RunNext]_vars /\ WF_vars(RunNext)

InitShard == ShardInit /\ PackIdle /\ ClipIdle /\ EvalIdle /\ StepIdle

SpecShard == InitShard /\ [][ShardNext]_vars

InitStep == StepInit /\ world_size = 1 /\ PackIdle /\ ClipIdle /\ EvalIdle /\ RunIdle

SpecStep == InitStep /\ [][StepNext]_vars

(***************************************************************************)
(* Properties of clip_grad_norm.                                           *)
(***************************************************************************)
RECURSIVE ConcatGrads(_)
\* the elements of every tracked gradient of a list of parameters, in order
ConcatGrads(ps) ==
    IF ps = <<>> THEN <<>>
    ELSE (IF Head(ps).has_grad THEN Head(ps).grad ELSE <<>>) \o ConcatGrads(Tail(ps))

RECURSIVE AllGradsUpTo(_, _)
\* the concatenation of the gradients of ranks 0..k
AllGradsUpTo(groupsOf, k) ==
    IF k < 0 THEN <<>>
    ELSE AllGradsUpTo(groupsOf, k - 1) \o ConcatGrads(Flatten(groupsOf[k]))

\* every gradient element of every worker, as the current call found them
EntryGrads == AllGradsUpTo(cg_entry, world_size - 1)

\* every worker is in call c and past the all-reduce
ReducedInCall(c) ==
    \A r \in Ranks : cg_call[r] = c /\ cg_pc[r] \in {"clip", "done"}

ReturnedFromCall(c) ==
    \A r \in Ranks : cg_call[r] = c /\ cg_pc[r] = "done"

\* the factor min(1, max_norm*scale/(norm + eps))
ClipFactor(norm) ==
    LET coef == DivF(Mul(cg_args.max_norm, cg_args.scale), Add(norm, cg_args.eps))
    IN IF LessF(coef, One) THEN coef ELSE One

\* groups `after` are groups `before` with every tracked gradient multiplied by f
ScaledBy(before, after, f) ==
    /\ Len(after) = Len(before)
    /\ \A g \in 1..Len(before) :
          /\ Len(after[g]) = Len(before[g])
          /\ \A i \in 1..Len(before[g]) :
                /\ after[g][i].has_grad = before[g][i].has_grad
                /\ Len(after[g][i].grad) = Len(before[g][i].grad)
                /\ \A j \in 1..Len(before[g][i].grad) :
                      after[g][i].grad[j] = Mul(before[g][i].grad[j], f)

\* C1: with norm_type 2, after the sum all-reduce every worker holds the sum of
\* the squares of every gradient element of every worker; the norm each worker
\* derives from it is the non-negative root of that sum, the same on all workers,
\* and the value returned is that norm divided by scale.
C1_L2NormIsGlobal ==
    \A c \in {1, 2} :
        (cg_args.norm_type = "2" /\ ReducedInCall(c)) =>
            \A r \in Ranks :
                /\ cg_buf[r] = SumSq(EntryGrads)
                /\ cg_pc[r] = "done" =>
                      /\ Sign(cg_norm[r]) >= 0
                      /\ Mul(cg_norm[r], cg_norm[r]) = SumSq(EntryGrads)
                      /\ Mul(cg_ret[r], cg_args.scale) = cg_norm[r]
                      /\ \A q \in Ranks : cg_pc[q] = "done" => cg_norm[q] = cg_norm[r]

\* two workers with non-zero gradients have returned from an L2 call whose scale
\* is not 1: the global norm is larger than either local norm
C1_Witness ==
    /\ world_size = 2 /\ cg_args.norm_type = "2" /\ ReturnedFromCall(1)
    /\ cg_args.scale # One
    /\ \A r \in Ranks : Sign(SumSq(ConcatGrads(Flatten(cg_entry[r])))) > 0
    /\ \A r \in Ranks : Less(SumSq(ConcatGrads(Flatten(cg_entry[r]))), cg_buf[r])

\* C2: with norm_type "inf", after the max all-reduce every worker holds the
\* largest absolute value of any gradient element of any worker, and takes it
\* as the norm.
C2_InfNormIsGlobalMax ==
    \A c \in {1, 2} :
        (cg_args.norm_type = "inf" /\ ReducedInCall(c)) =>
            \A r \in Ranks :
                /\ \A j \in 1..Len(EntryGrads) : ~Less(cg_buf[r], AbsNum(EntryGrads[j]))
                /\ \E j \in 1..Len(EntryGrads) : cg_buf[r] = AbsNum(EntryGrads[j])
                /\ \A q \in Ranks : cg_buf[q] = cg_buf[r]
                /\ cg_pc[r] = "done" => cg_norm[r] = cg_buf[r]

\* two workers have returned from an "inf" call; the maximum is on rank 1 and is
\* the absolute value of a negative element
C2_Witness ==
    /\ world_size = 2 /\ cg_args.norm_type = "inf" /\ ReturnedFromCall(1)
    /\ cg_norm[0] = FromInt(2) /\ cg_norm[1] = FromInt(2)
    /\ \E j \in 1..Len(ConcatGrads(Flatten(cg_entry[1]))) :
          ConcatGrads(Flatten(cg_entry[1]))[j] = FromInt(-2)
    /\ \A j \in 1..Len(ConcatGrads(Flatten(cg_entry[0]))) :
          Less(AbsNum(ConcatGrads(Flatten(cg_entry[0]))[j]), FromInt(2))

\* the norm the claims define: over the gradients of all workers
GlobalNorm ==
    IF cg_args.norm_type = "inf"
    THEN MaxOf([j \in 1..Len(EntryGrads) |-> AbsNum(EntryGrads[j])])
    ELSE Sqrt(SumSq(EntryGrads))

\* C3: once every worker has returned, every tracked gradient of every worker is
\* its value at entry times the one factor min(1, max_norm*scale/(norm + eps))
\* of the global norm, and a parameter without gradient still has none.
C3_AllGradientsScaled ==
    \A c \in {1, 2} :
        ReturnedFromCall(c) =>
            \A r \in Ranks : ScaledBy(cg_entry[r], param_groups[r], ClipFactor(GlobalNorm))

\* the scenario of two workers holding [3,4] and [0,0], threshold 1, scale 1
C3_Witness ==
    /\ world_size = 2 /\ cg_args.norm_type = "2" /\ ReturnedFromCall(1)
    /\ cg_args.max_norm = One /\ cg_args.scale = One /\ cg_args.eps = Zero
    /\ cg_entry[0] = << <<Tensor(<<3, 4>>)>> >>
    /\ cg_entry[1] = << <<Tensor(<<0, 0>>)>> >>
    /\ cg_norm[0] = FromInt(5) /\ cg_coef[0] = Rat(1, 5) /\ cg_coef[1] = Rat(1, 5)
    /\ param_groups[0] = << <<[has_grad |-> TRUE, grad |-> <<Rat(3, 5), Rat(4, 5)>>]>> >>
    /\ param_groups[1] = << <<Tensor(<<0, 0>>)>> >>

\* C4 as claimed: the gradients after the second of two successive calls equal
\* the gradients after the first.
C4_SecondCallChangesNothing ==
    ReturnedFromCall(2) =>
        \A r \in Ranks : param_groups[r] = cg_first[r].result

\* C4 amended: a second call changes nothing when the first call's coefficient
\* was not below 1, or when eps is 0; when the first call clipped and eps > 0,
\* the second call's coefficient is below 1 again and every gradient is
\* multiplied by it once more, so every non-zero gradient changes.
C4_SecondCallClipsAgain ==
    ReturnedFromCall(2) =>
        \A r \in Ranks :
            LET clipped1 == LessF(cg_first[r].coef, One)
                clipped2 == LessF(cg_coef[r], One)
            IN /\ ~clipped1 => (~clipped2 /\ param_groups[r] = cg_first[r].result)
               /\ (clipped1 /\ Sign(cg_args.eps) = 0) =>
                     (~clipped2 /\ param_groups[r] = cg_first[r].result)
               /\ (clipped1 /\ Sign(cg_args.eps) > 0) =>
                     /\ clipped2
                     /\ ScaledBy(cg_first[r].result, param_groups[r], cg_coef[r])
                     /\ \A j \in 1..Len(ConcatGrads(Flatten(param_groups[r]))) :
                           LET before == ConcatGrads(Flatten(cg_first[r].result))[j]
                               after == ConcatGrads(Flatten(param_groups[r]))[j]
                           IN (after = before) <=> (Sign(before) = 0)

\* both calls clipped with eps > 0 and changed a non-zero gradient twice
C4_Witness ==
    /\ ReturnedFromCall(2) /\ Sign(cg_args.eps) > 0
    /\ \A r \in Ranks : LessF(cg_first[r].coef, One) /\ LessF(cg_coef[r], One)
    /\ \E r \in Ranks :
          /\ cg_first[r].result # cg_first[r].entry
          /\ param_groups[r] # cg_first[r].result

(***************************************************************************)
(* Properties of make_input.                                               *)
(***************************************************************************)
\* the combined length len(left) + spans + len(right) of the drawn arguments
CombinedLength == Len(mi_args.lef_tokens) + mi_args.spans + Len(mi_args.rig_tokens)

\* C5: when the combined length L is below max_length, the call returns a token
\* sequence of width max_length holding the left tokens, then `spans` zeros, then
\* the right tokens, then zeros from position L on; the length returned is L; and
\* the context mask is false exactly on the span positions.
C5_MakeInputLayout ==
    (mi_pc = "done" /\ CombinedLength < mi_args.max_length) =>
        LET nl == Len(mi_args.lef_tokens)
            sp == mi_args.spans
            positions == 0..(mi_args.max_length - 1)
        IN /\ mi_out.raised = ""
           /\ DOMAIN mi_out.input_tokens = positions
           /\ DOMAIN mi_out.context = positions
           /\ mi_out.input_length = CombinedLength
           /\ \A p \in positions :
                 /\ p < nl => mi_out.input_tokens[p] = mi_args.lef_tokens[p + 1]
                 /\ (nl <= p /\ p < nl + sp) => mi_out.input_tokens[p] = 0
                 /\ (nl + sp <= p /\ p < CombinedLength) =>
                       mi_out.input_tokens[p] = mi_args.rig_tokens[p - nl - sp + 1]
                 /\ p >= CombinedLength => mi_out.input_tokens[p] = 0
                 /\ mi_out.context[p] = ~(nl <= p /\ p < nl + sp)

\* a call with non-zero left and right tokens, one span slot and one padding position
C5_Witness ==
    /\ mi_pc = "done"
    /\ mi_args = [lef_tokens |-> <<7>>, rig_tokens |-> <<7>>, spans |-> 1, max_length |-> 4]
    /\ mi_out.raised = ""
    /\ mi_out.input_tokens = [p \in 0..3 |-> IF p \in {0, 2} THEN 7 ELSE 0]
    /\ mi_out.context = [p \in 0..3 |-> p # 1]
    /\ mi_out.input_length = 3

(***************************************************************************)
(* Properties of the evaluation gather and its metrics.                    *)
(***************************************************************************)
RECURSIVE ConcatRanks(_, _)
\* the lists of ranks 0..k one after the other
ConcatRanks(lists, k) ==
    IF k < 0 THEN <<>> ELSE ConcatRanks(lists, k - 1) \o lists[k]

AllPd == ConcatRanks([r \in Ranks |-> ev_local[r].pd], world_size - 1)
AllGt == ConcatRanks([r \in Ranks |-> ev_local[r].gt], world_size - 1)
AllQids == ConcatRanks([r \in Ranks |-> ev_local[r].qids], world_size - 1)

EqualCounts == \A q, r \in Ranks : LocalCounts[q] = LocalCounts[r]

Gathered(r) == ev_pc[r] \in {"metric", "done", "AttributeError"}

\* C7: when every worker produced the same number n of predictions, the gathered
\* prediction and label lists of every worker have n*W entries: the entries of
\* rank 0 in local order, then those of rank 1, and so on; all workers hold the
\* same lists.
C7_GatherIsRankOrderedConcat ==
    EqualCounts =>
        \A r \in Ranks : Gathered(r) =>
            /\ Len(ev_pd_global[r]) = LocalCounts[0] * world_size
            /\ Len(ev_gt_global[r]) = LocalCounts[0] * world_size
            /\ ev_pd_global[r] = AllPd
            /\ ev_gt_global[r] = AllGt
            /\ \A q \in Ranks : Gathered(q) =>
                  (ev_pd_global[q] = ev_pd_global[r] /\ ev_gt_global[q] = ev_gt_global[r])

\* two workers with three different local predictions each hold the six entries
C7_Witness ==
    /\ world_size = 2
    /\ ev_local[0].pd = <<0, 0, 0>> /\ ev_local[1].pd = <<1, 0, 1>>
    /\ \A r \in Ranks : ev_pc[r] = "done"
    /\ \A r \in Ranks : ev_pd_global[r] = <<0, 0, 0, 1, 0, 1>>
    /\ \A r \in Ranks : ev_gt_global[r] = <<0, 0, 0, 1, 1, 1>>

RowsOf(r, split) ==
    { i \in 1..(Len(rn_reader[split]) - 1) :
        /\ i <= ((Len(rn_reader[split]) - 1) \div world_size) * world_size
        /\ i % world_size = r }

\* len(lef_tokens) + spans + len(rig_tokens) of row i of a split
PackedLength(split, i) == (1 + Len(rn_reader[split][i + 1].text)) + 1 + Len(EncodedPeriod)

HasRowTooLong(r) ==
    \E split \in Splits : \E i \in RowsOf(r, split) :
        PackedLength(split, i) >= rn_args.max_length

AllDone == \A r \in Ranks : rn_pc[r] = "done"

\* C6: make_input's assertion fails exactly when the combined length
\* len(lef_tokens) + spans + len(rig_tokens) is at least max_length, equality
\* included: a worker's dataset construction ends in AssertionError exactly
\* when one of the rows it packs has such a length.  The failure ends the run
\* before any training step: the failing worker never starts a batch, and no
\* worker ever gets past the first collective, so no optimizer step is taken.
C6_AssertionEndsRunBeforeTraining ==
    /\ \A r \in Ranks :
          rn_pc[r] # "prepare" => (rn_pc[r] = "AssertionError" <=> HasRowTooLong(r))
    /\ \A r \in Ranks :
          rn_pc[r] = "AssertionError" =>
              /\ rn_dataset[r] = NoDataset /\ rn_it[r] = 0
              /\ \A q \in Ranks :
                    /\ rn_optim[q] = 0 /\ rn_epoch[q] = 0
                    /\ rn_pc[q] \in {"train", "loss_sum_loss"} => rn_it[q] = 0
                    /\ rn_pc[q] \in {"prepare", "AssertionError", "train", "loss_sum_loss",
                                     "ZeroDivisionError", "dev_sum_loss"}

\* a row exactly as long as max_length made one worker fail while another one,
\* whose rows all fit, waits in the first collective of training
C6_Witness ==
    /\ world_size = 2
    /\ \E r \in Ranks :
          /\ rn_pc[r] = "AssertionError"
          /\ \E split \in Splits : \E i \in RowsOf(r, split) :
                PackedLength(split, i) = rn_args.max_length
    /\ \E q \in Ranks : rn_pc[q] = "loss_sum_loss" /\ ~HasRowTooLong(q)

\* workers that are inside a collective are inside the same call of the same
\* epoch and batch, and the loaders of any two workers have the same numbers
\* of batches
SameCollectivesAndCounts ==
    /\ \A q, r \in Ranks :
          (rn_pc[q] \in WaitSites /\ rn_pc[r] \in WaitSites) =>
              /\ rn_pc[q] = rn_pc[r]
              /\ rn_epoch[q] = rn_epoch[r]
              /\ rn_it[q] = rn_it[r]
    /\ \A q, r \in Ranks :
          (rn_pc[q] \notin {"prepare", "AssertionError"}
             /\ rn_pc[r] \notin {"prepare", "AssertionError"}) =>
              \A split \in Splits :
                  NumBatches(rn_dataset[q][split], rn_args.batch_size)
                      = NumBatches(rn_dataset[r][split], rn_args.batch_size)

\* every row that some worker packs is shorter than max_length
PackedRowsFit == \A r \in Ranks : ~HasRowTooLong(r)

\* dev.tsv and test.tsv have at least world_size data rows each
DevAndTestCoverWorkers ==
    /\ Len(rn_reader.dev) - 1 >= world_size
    /\ Len(rn_reader.test) - 1 >= world_size

IterationOrder ==
    <<"zero_grad", "forward", "loss", "loss_scale", "backward", "clip_grad_norm",
      "optim_step", "log">>

IsPrefixOf(s, t) == Len(s) <= Len(t) /\ \A k \in 1..Len(s) : s[k] = t[k]

IsOrderedStep(step) == \E k \in 1..Len(IterationOrder) : IterationOrder[k] = step

\* those of the statements executed in the current iteration that are steps of
\* IterationOrder
OrderedSteps == SelectSeq(st_steps, IsOrderedStep)

InTrainingIteration ==
    st_pc \in {TrainBody(st_driver)[k] : k \in 1..Len(TrainBody(st_driver))} \cup {"save"}

InEvaluation == st_pc \in {"eval_dev", "eval_test"}

BatchesOfEpoch == LoaderLen(st_loader.train, st_args.batch_size)

\* C11: in either driver the steps of a training iteration happen in the order
\* zero gradients, forward, loss, loss scaling, backward, clipping, optimizer
\* step, log, and a finished iteration has done all of them; every optimizer
\* step finds the gradients of exactly one backward pass since they were
\* zeroed, already clipped; gradients are zeroed once, as the first step; an
\* evaluation runs only when all training iterations of its epoch are done, and
\* a training iteration only when both splits of every earlier epoch have been
\* evaluated.
C11_IterationStepsInOrder ==
    /\ IsPrefixOf(OrderedSteps, IterationOrder)
    /\ (st_steps # <<>>) => st_steps[1] = "zero_grad"
    /\ (st_pc \in {"batch", "save"} /\ st_steps # <<>>) => OrderedSteps = IterationOrder
    /\ (st_applied # <<>>) => st_applied[1] = [backwards |-> 1, clipped |-> TRUE]
    /\ InTrainingIteration =>
          /\ st_evaluated = 2 * st_epoch
          /\ st_trained = st_epoch * BatchesOfEpoch + st_it
    /\ InEvaluation =>
          /\ st_trained = (st_epoch + 1) * BatchesOfEpoch
          /\ st_evaluated = 2 * st_epoch + (IF st_pc = "eval_test" THEN 1 ELSE 0)

\* the GPT-2 driver has completed the second iteration of its second epoch
C11_Witness ==
    /\ st_driver = "gpt2"
    /\ st_epoch = 1
    /\ st_pc = "batch"
    /\ st_it = 2
    /\ OrderedSteps = IterationOrder
    /\ st_applied # <<>>
    /\ st_evaluated = 2

(***************************************************************************)
(* Properties of the LCQMC sharding.                                       *)
(***************************************************************************)
\* worker r has built its three datasets
Built(r) == rn_pc[r] \notin {"prepare", "AssertionError"}

\* the indices in the file of the rows in worker r's shard of a split
ShardRows(r, split) ==
    {rn_dataset[r][split][k].row : k \in 1..Len(rn_dataset[r][split])}

\* R: the rows of the file after the header
DataRows(split) == Len(rn_reader[split]) - 1

\* C12: of a file with a header and R data rows, every rank's shard has exactly
\* floor(R/W) examples, all from different rows, none the header (row 0); the
\* shards of two ranks have no row in common; and once all ranks have built
\* theirs, the shards together are exactly the rows 1..floor(R/W)*W, so that
\* only the last R mod W rows are left out.
C12_ShardsPartitionLeadingRows ==
    \A split \in Splits :
        LET each == DataRows(split) \div world_size
        IN /\ \A r \in Ranks :
                 Built(r) =>
                     /\ Len(rn_dataset[r][split]) = each
                     /\ Cardinality(ShardRows(r, split)) = each
                     /\ 0 \notin ShardRows(r, split)
                     /\ NumBatches(rn_dataset[r][split], rn_args.batch_size)
                            = (each + rn_args.batch_size - 1) \div rn_args.batch_size
           /\ \A q, r \in Ranks :
                 (Built(q) /\ Built(r) /\ q # r) =>
                     ShardRows(q, split) \cap ShardRows(r, split) = {}
           /\ (\A r \in Ranks : Built(r)) =>
                 /\ UNION {ShardRows(r, split) : r \in Ranks} = 1..(each * world_size)
                 /\ DataRows(split) - each * world_size = DataRows(split) % world_size

\* three workers have built their shards of a train file of 5 data rows, one row
\* each, rows 4 and 5 left out, and of a dev file of 3 rows, none left out
C12_Witness ==
    /\ world_size = 3
    /\ \A r \in Ranks : Built(r)
    /\ DataRows("train") = 5
    /\ \A r \in Ranks : Len(rn_dataset[r].train) = 1
    /\ DataRows("dev") = 3

====
